---- MODULE Spec2Model ----
(***************************************************************************)
(* Model of the scroll-driven experience of guitargnarr/skeleton-crew-     *)
(* experience: the granular audio engine (useGranularAudio) with its       *)
(* scene-blend function, its timers and the Web Audio gain automation it   *)
(* schedules.                                                              *)
(*                                                                         *)
(* Number representation.  The program computes in IEEE doubles; the model *)
(* computes in exact fixed point:                                          *)
(*   progress and blend weights  in thousandths        (0.185 is 185)      *)
(*   config fields               in thousandths of the table's base unit   *)
(*   time                        in units of 100 ms    (2 s is 20)         *)
(*   gain                        in thousandths        (0.7 is 700)        *)
(*   published scroll progress   in hundred-thousandths (0.0001 is 10)     *)
(*   scroll offsets              in px                                     *)
(*   touch velocity, scrollBy    in tenths of a px (per ms or per frame)   *)
(*   particle coordinates        in thousandths of a world unit            *)
(*   scene-group progress, fades in ten-thousandths    (0.185 is 1850)     *)
(***************************************************************************)
EXTENDS Integers, Sequences, FiniteSets, TLC

VARIABLES
    \* ---- useGranularAudio: React state and refs
    mounted,          \* the component is mounted
    isPlaying,        \* useState(false)
    isPlayingRef,     \* useRef(false)
    refs,             \* ctxRef, noiseBufferRef, masterGainRef, filterRef, dryGainRef,
                      \* wetGainRef, convolverRef: a graph id, or Null
    grainTimerRef,    \* id of the last grain timer set, or Null
    currentConfigRef, \* the GrainConfig the scheduler reads
    progress,         \* the progress prop (React state published by useScrollProgress)
    progressRef,      \* useRef(progress), written by the first effect
    effectsPending,   \* the [progress] effects of the last render have not run yet
    mobileRef,        \* useRef(isMobile())
    GRAIN_CONFIGS,    \* the module-level config table (its objects are mutable)
    \* ---- platform state
    graphs,           \* the audio contexts built so far, by id
    nextCtx,          \* the id the next AudioContext gets
    grainTimers,      \* ids of the pending setTimeout(scheduleNextGrain) timers
    teardowns,        \* pending setTimeout(teardown, 1600) timers: [ctx, due]
    \* ---- observation of the last step
    lastOp,           \* what the last step did
    lastGrain,        \* the config of the grain the last step spawned, or NoGrain
    \* ---- evaluation of getSceneBlend on its own
    bp,               \* the progress getSceneBlend was last applied to
    bres,             \* its result
    bprev,            \* the argument and result before that
    \* ---- useScrollProgress and the page it listens to
    scrollY,          \* window.scrollY, in px
    docHeight,        \* documentElement.scrollHeight - window.innerHeight, in px
    scrollEventDue,   \* the browser has a scroll event to dispatch
    listening,        \* handleScroll is registered (the hook is mounted)
    rafId,            \* useRef<number | null>(null)
    rafQueue,         \* ids of the animation-frame callbacks the browser holds
    lastProgress,     \* useRef(0)
    scrollProgress,   \* useState(0): the progress the hook returns
    eventsSinceRun,   \* scroll events handled since the last updateProgress run
    scrollOp,         \* what the last step of the hook did
    sample,           \* what the last updateProgress run sampled and did
    \* ---- useMobileScroll and the fingers on the screen
    touchConfig,      \* sensitivity, friction, momentumThreshold, maxVelocity
    fingers,          \* touches on the screen (e.touches.length after the event)
    touchListening,   \* the touch listeners are registered
    touchLastY,       \* useRef(0); touchStartY is written with it and never read
    touchLastYLive,   \* touchLastY was recorded by the single-finger gesture under way
    velocity,         \* useRef(0), in tenths of a px per ms (or per frame)
    momentumRaf,      \* useRef<number | null>(null)
    momentumQueue,    \* ids of the animate callbacks the browser holds
    isTouching,       \* useRef(false)
    isMultiTouch,     \* useRef(false)
    moves,            \* touchmove events since the last single-finger touchstart
    scrolledBy,       \* the argument of the last window.scrollBy, in tenths of a px
    touchOp,          \* what the last step of the hook did
    \* ---- P5Overlay: the sketch's closure state
    overlayProgress,  \* progressRef.current of the overlay
    canvasHeight,     \* p.height, as the index of a viewport size
    frameCount,       \* p.frameCount
    streams,          \* the stream blocks, by the canvas height they were drawn from
    inventoryRevealed, \* boolean[][] | null of the inventory grid
    inventoryFlash,   \* its flash queue
    verifiedCells,    \* boolean[][] | null of the verification grid
    flashCells,       \* its flash queue
    overlayOp,        \* what the last step of the overlay did
    lastDraw,         \* what the last p.draw drew
    \* ---- particle systems: one particle of AccumulationStars and of AssemblyStreams
    star,             \* scattered and targets of the particle, and its live position
    stream,           \* origins and streamIdx of the particle, and its live position
    particleFrame,    \* the progress, oscillation and convergence of the last useFrame
    \* ---- the five scene groups of the 3D experience
    groupProgress,    \* the progress prop of the groups, in ten-thousandths
    groups,           \* ref.current.visible of each group, and the inventory scale
    groupsOp,         \* what the last step of the groups did
    \* ---- MorphCamera
    cameraProgress,   \* the progress prop of the camera, in thousandths
    cameraMobile,     \* its isMobile prop
    currentPos,       \* currentPos.current, a vector in millionths of a world unit
    currentLookAt,    \* currentLookAt.current
    cameraOp          \* what the last step of the camera did

vars == <<mounted, isPlaying, isPlayingRef, refs, grainTimerRef, currentConfigRef,
          progress, progressRef, effectsPending, mobileRef, GRAIN_CONFIGS,
          graphs, nextCtx, grainTimers, teardowns, lastOp, lastGrain,
          bp, bres, bprev,
          scrollY, docHeight, scrollEventDue, listening, rafId, rafQueue,
          lastProgress, scrollProgress, eventsSinceRun, scrollOp, sample,
          touchConfig, fingers, touchListening, touchLastY, touchLastYLive, velocity,
          momentumRaf, momentumQueue, isTouching, isMultiTouch, moves, scrolledBy,
          touchOp,
          overlayProgress, canvasHeight, frameCount, streams, inventoryRevealed, inventoryFlash,
          verifiedCells, flashCells, overlayOp, lastDraw,
          star, stream, particleFrame, groupProgress, groups, groupsOp,
          cameraProgress, cameraMobile, currentPos, currentLookAt, cameraOp>>

engineVars == <<mounted, isPlaying, isPlayingRef, refs, grainTimerRef, currentConfigRef,
                progress, progressRef, effectsPending, mobileRef, GRAIN_CONFIGS,
                graphs, nextCtx, grainTimers, teardowns, lastOp, lastGrain>>

blendVars == <<bp, bres, bprev>>

scrollVars == <<scrollY, docHeight, scrollEventDue, listening, rafId, rafQueue,
                lastProgress, scrollProgress, eventsSinceRun, scrollOp, sample>>

touchVars == <<touchConfig, fingers, touchListening, touchLastY, touchLastYLive, velocity,
               momentumRaf, momentumQueue, isTouching, isMultiTouch, moves, scrolledBy,
               touchOp>>

overlayVars == <<overlayProgress, canvasHeight, frameCount, streams, inventoryRevealed,
                 inventoryFlash, verifiedCells, flashCells, overlayOp, lastDraw>>

sceneVars == <<star, stream, particleFrame, groupProgress, groups, groupsOp>>

\* everything outside useGranularAudio and the getSceneBlend sweep
cameraVars == <<cameraProgress, cameraMobile, currentPos, currentLookAt, cameraOp>>

pageVars == <<scrollVars, touchVars, overlayVars, sceneVars, cameraVars>>

Null == 0
NoGrain == [spawned |-> FALSE]

Milli == 10 * 100

Min(a, b) == IF a < b THEN a ELSE b
Max(a, b) == IF a > b THEN a ELSE b

-----------------------------------------------------------------------------
(* Grain configs                                                           *)

\* One GrainConfig literal.  Arguments in the table's base units: density in
\* grains/s, grainDuration in ms, pitchRange in hundredths, panSpread in tenths,
\* amplitude in thousandths, filterFreq in Hz, filterQ in tenths, reverbWet in
\* hundredths; each field is stored in thousandths of its base unit.
GrainConfig(d, dur, pLow, pHigh, pan, amp, freq, q, wet) ==
    [density |-> d * Milli, grainDuration |-> dur * Milli,
     pitchLow |-> pLow * Milli, pitchHigh |-> pHigh * Milli,
     panSpread |-> pan * Milli, amplitude |-> amp * Milli,
     filterFreq |-> freq * Milli, filterQ |-> q * Milli, reverbWet |-> wet * Milli]

\* const GRAIN_CONFIGS: GrainConfig[] = [...] as the module is loaded
GrainConfigTable ==
    << GrainConfig(3, 12, 80, 150, 6, 30, 2000, 20, 15),     \* I: Inventory
       GrainConfig(8, 25, 50, 200, 10, 25, 1200, 40, 30),    \* II: Decision
       GrainConfig(25, 15, 90, 110, 3, 20, 800, 15, 20),     \* III: Assembly
       GrainConfig(6, 40, 100, 150, 4, 35, 3000, 60, 55),    \* IV: Verification
       GrainConfig(18, 45, 60, 120, 8, 25, 1500, 10, 45) >>  \* V: Accumulation

\* GRAIN_CONFIGS.length
NumScenes == Len(GrainConfigTable)

\* table[scene], scenes numbered from 0 as in the source
ConfigAt(table, scene) == table[scene + 1]

\* a + (b - a) * t, t in thousandths
lerp(a, b, t) == a + ((b - a) * t) \div Milli

lerpConfig(a, b, t) ==
    [density |-> lerp(a.density, b.density, t),
     grainDuration |-> lerp(a.grainDuration, b.grainDuration, t),
     pitchLow |-> lerp(a.pitchLow, b.pitchLow, t),
     pitchHigh |-> lerp(a.pitchHigh, b.pitchHigh, t),
     panSpread |-> lerp(a.panSpread, b.panSpread, t),
     amplitude |-> lerp(a.amplitude, b.amplitude, t),
     filterFreq |-> lerp(a.filterFreq, b.filterFreq, t),
     filterQ |-> lerp(a.filterQ, b.filterQ, t),
     reverbWet |-> lerp(a.reverbWet, b.reverbWet, t)]

\* the mobile density cap, 10 grains/s
DensityCap == 10

-----------------------------------------------------------------------------
(* Scene timeline of the audio engine                                      *)

\* const boundaries = [0.03, 0.20, 0.37, 0.54, 0.71, 0.86], in thousandths
boundaries == <<30, 200, 370, 540, 710, 860>>

\* const transitionWidth = 0.02, in thousandths
transitionWidth == 20

\* Math.min(Math.max(t, 0), 1) on thousandths
Clamp01(t) == Min(Max(t, 0), Milli)

\* The loop with its bound one short (i < boundaries.length - 2): the band
\* before the last boundary is lost.
RECURSIVE SceneLoopShort(_, _)
SceneLoopShort(p, i) ==
    IF i >= Len(boundaries) - 2
    THEN [scene |-> NumScenes - 1, blend |-> 0]
    ELSE LET segEnd == boundaries[i + 2]
             transStart == segEnd - transitionWidth
         IN  IF p < transStart THEN [scene |-> i, blend |-> 0]
             ELSE IF p < segEnd
                  THEN [scene |-> i,
                        blend |-> Clamp01(((p - transStart) * Milli) \div transitionWidth)]
                  ELSE SceneLoopShort(p, i + 1)

\* The for loop of getSceneBlend from index i (0-based, as in the source) on.
RECURSIVE SceneLoop(_, _)
SceneLoop(p, i) ==
    IF i >= Len(boundaries) - 1
    THEN [scene |-> NumScenes - 1, blend |-> 0]
    ELSE LET segEnd == boundaries[i + 2]
             transStart == segEnd - transitionWidth
         IN  IF p < transStart THEN [scene |-> i, blend |-> 0]
             ELSE IF p < segEnd
                  THEN [scene |-> i,
                        blend |-> Clamp01(((p - transStart) * Milli) \div transitionWidth)]
                  ELSE SceneLoop(p, i + 1)

getSceneBlend(p) ==
    IF p < boundaries[1] THEN [scene |-> 0, blend |-> 0] ELSE SceneLoop(p, 0)

\* const nextScene = Math.min(scene + 1, GRAIN_CONFIGS.length - 1)
nextSceneOf(scene) == Min(scene + 1, NumScenes - 1)

\* The config computation shared by the progress effect and start():
\*   blended = blend > 0 ? lerpConfig(base, next, blend) : base
\*   if (mobile && blended.density > 10) blended.density = 10
\* With blend = 0, blended IS the table's object, so the cap writes the table.
\* Result: the config assigned to currentConfigRef and the table afterwards.
Blended(table, p) ==
    LET sb == getSceneBlend(p)
        baseConfig == ConfigAt(table, sb.scene)
        nextConfig == ConfigAt(table, nextSceneOf(sb.scene))
    IN  IF sb.blend > 0 THEN lerpConfig(baseConfig, nextConfig, sb.blend) ELSE baseConfig

ComputeConfig(table, p, mobile) ==
    LET sb == getSceneBlend(p)
        blended == Blended(table, p)
        capped == mobile /\ blended.density > DensityCap * Milli
        result == IF capped THEN [blended EXCEPT !.density = DensityCap * Milli]
                  ELSE blended
    IN  [config |-> result,
         table |-> IF capped /\ sb.blend = 0
                   THEN [table EXCEPT ![sb.scene + 1] = result]
                   ELSE table]

-----------------------------------------------------------------------------
(* Bounds of the model                                                     *)

\* audio contexts the page may create in one run
MaxContexts == 3

\* timer ids available to the grain scheduler at one time
MaxTimers == 3

\* units of 100 ms that pass between two observations of the clocks
TimeStep == 4

\* largest step of the progress sweep that exercises getSceneBlend
MaxStep == 3

\* progress values the scroll source publishes to the engine, in thousandths:
\* Inventory, the Decision->Assembly band, Assembly, Verification
ProgressValues == {100, 360, 400, 600}

\* the one scroll position published while the engine's lifecycle is explored
LifecycleProgress == {400}

-----------------------------------------------------------------------------
(* Web Audio: AudioParam automation of the master gain                     *)
(* (the platform's semantics for setValueAtTime / linearRampToValueAtTime: *)
(* events are kept sorted by time; an event of the same type at the same   *)
(* time replaces the old one; a ramp interpolates from the previous event) *)

\* linearRampToValueAtTime(0.7, now + 2): target gain in thousandths
FadeInTarget == 700

\* now + 2 seconds, in units of 100 ms
FadeInTime == 20

\* linearRampToValueAtTime(0, now + 1.5)
FadeOutTime == 15

\* setTimeout(..., 1600)
TeardownDelay == 16

SetEvent(v, t) == [kind |-> "set", value |-> v, time |-> t]
RampEvent(v, t) == [kind |-> "ramp", value |-> v, time |-> t]

\* number of events of the timeline at or before time t (a prefix: it is sorted)
PastCount(events, t) == Cardinality({i \in 1..Len(events) : events[i].time <= t})

InsertEvent(events, e) ==
    LET k == PastCount(events, e.time)
    IN  IF k > 0 /\ events[k].time = e.time /\ events[k].kind = e.kind
        THEN [events EXCEPT ![k] = e]
        ELSE SubSeq(events, 1, k) \o <<e>> \o SubSeq(events, k + 1, Len(events))

\* the param's value at time t; held is its value before the first event
ValueAt(events, t, held) ==
    LET k == PastCount(events, t)
    IN  IF k = 0 THEN held
        ELSE LET prev == events[k]
             IN  IF k < Len(events) /\ events[k + 1].kind = "ramp"
                 THEN LET nx == events[k + 1]
                      IN  prev.value
                          + ((nx.value - prev.value) * (t - prev.time)) \div (nx.time - prev.time)
                 ELSE prev.value

\* A context: its state, its currentTime (age), the master gain's value and
\* timeline, and whether start() faded it in and stop() faded it out.
NoGraph == [state |-> "none", age |-> 0, gain |-> 0, events |-> <<>>,
            started |-> FALSE, stopped |-> FALSE]
ClosedGraph == [state |-> "closed", age |-> 0, gain |-> 0, events |-> <<>>,
                started |-> FALSE, stopped |-> FALSE]

\* new AudioContext(): currentTime 0; no master gain node yet
NewContext == [state |-> "running", age |-> 0, gain |-> 0, events |-> <<>>,
               started |-> FALSE, stopped |-> FALSE]

\* ctx.close()
CloseContext(gs, c) == [gs EXCEPT ![c] = ClosedGraph]

\* TimeStep units of time on a context: currentTime advances and the gain follows
\* its timeline.  Once every event is in the past the gain is constant, the
\* timeline is dropped and the clock is restarted (later events are relative).
AdvanceGraph(g) ==
    IF g.state # "running" \/ g.events = <<>> THEN g
    ELSE LET t == g.age + TimeStep
             v == ValueAt(g.events, t, g.gain)
         IN  IF t >= g.events[Len(g.events)].time
             THEN [g EXCEPT !.age = 0, !.gain = v, !.events = <<>>]
             ELSE [g EXCEPT !.age = t, !.gain = v]

-----------------------------------------------------------------------------
(* useGranularAudio                                                        *)

Contexts == 1..MaxContexts

NullRefs == [ctx |-> Null, noiseBuffer |-> Null, masterGain |-> Null, filter |-> Null,
             dryGain |-> Null, convolver |-> Null, wetGain |-> Null]

\* the two Math.random() results a grain's pitch and pan are made of, in
\* thousandths: a pitch just below the middle of the range with the largest
\* pan factor, and a pitch in the middle with the smallest
RandomDraws == {[pitch |-> 499, pan |-> 999], [pitch |-> 500, pan |-> 0]}

\* pan.pan.value of Scene II, 0.8, in the unit of panSpread
HardPan == 8 * Milli

\* pitchLow + Math.random() * (pitchHigh - pitchLow)
grainPitch(config, rnd) ==
    config.pitchLow + (rnd.pitch * (config.pitchHigh - config.pitchLow)) \div Milli

\* scene === 1 ? (pitch < midPitch ? -0.8 : 0.8)
\*             : (Math.random() * 2 - 1) * config.panSpread
grainPan(config, scene, pitch, rnd) ==
    IF scene = 1
    THEN IF 2 * pitch < config.pitchLow + config.pitchHigh THEN 0 - HardPan ELSE HardPan
    ELSE ((2 * rnd.pan - Milli) * config.panSpread) \div Milli

\* spawnGrain(config): a grain is made only with context, buffer and filter
spawnGrain(config, r, rnd) ==
    IF r.ctx = Null \/ r.noiseBuffer = Null \/ r.filter = Null
    THEN NoGrain
    ELSE LET scene == getSceneBlend(progressRef).scene
             pitch == grainPitch(config, rnd)
         IN  [spawned |-> TRUE, config |-> config, ctx |-> r.ctx, scene |-> scene,
              pitch |-> pitch, pan |-> grainPan(config, scene, pitch, rnd)]

FreeTimers(pending) == {i \in 1..MaxTimers : i \notin pending /\ i # grainTimerRef}

\* scheduleNextGrain() run with the given ref values and pending timers
scheduleNextGrain(playing, config, r, pending) ==
    IF ~playing
    THEN /\ lastGrain' = NoGrain
         /\ grainTimers' = pending
         /\ UNCHANGED grainTimerRef
    ELSE /\ FreeTimers(pending) # {}
         /\ \E rnd \in RandomDraws : lastGrain' = spawnGrain(config, r, rnd)
         /\ LET id == CHOOSE i \in FreeTimers(pending) : TRUE
            IN  /\ grainTimers' = pending \cup {id}
                /\ grainTimerRef' = id

\* initAudio(): where the try block throws ("none": it does not)
InitFailures == {"none", "ctx", "buffer", "filter"}

\* the refs after initAudio on new context c
InitRefs(fail, c) ==
    CASE fail = "ctx" -> refs
      [] fail = "buffer" -> [refs EXCEPT !.ctx = c]
      [] fail = "filter" -> [refs EXCEPT !.ctx = c, !.noiseBuffer = c, !.masterGain = c]
      [] OTHER -> [ctx |-> c, noiseBuffer |-> c, masterGain |-> c, filter |-> c,
                   dryGain |-> c, convolver |-> c, wetGain |-> c]

\* the context after initAudio: masterGain.gain.setValueAtTime(0, ctx.currentTime)
InitGraph(fail) ==
    IF fail \in {"none", "filter"}
    THEN [NewContext EXCEPT !.events = InsertEvent(<<>>, SetEvent(0, 0))]
    ELSE NewContext

\* start(), lines 580-583: setValueAtTime(0, now); linearRampToValueAtTime(0.7, now + 2)
FadeIn(g, now) ==
    [g EXCEPT !.events = InsertEvent(InsertEvent(g.events, SetEvent(0, now)),
                                     RampEvent(FadeInTarget, now + FadeInTime)),
              !.started = TRUE]

\* stop(), lines 618-620: setValueAtTime(gain.value, now); linearRampToValueAtTime(0, now + 1.5)
FadeOut(g, now) ==
    [g EXCEPT !.events = InsertEvent(InsertEvent(g.events, SetEvent(g.gain, now)),
                                     RampEvent(0, now + FadeOutTime)),
              !.stopped = TRUE]

\* start() without its check of initAudio's result
initIgnored(fail) == TRUE

\* if (!success) return;  -- whether start() goes on after initAudio
initSucceeded(fail) == fail = "none"

\* toggleAudio taking its start() branch whatever isPlayingRef holds
toggleAlwaysStarts == TRUE

\* toggleAudio: if (isPlayingRef.current) stop() else start()
toggleStarts == ~isPlayingRef

\* start(), reached from toggleAudio when isPlayingRef is false
start(fail) ==
    /\ mounted
    /\ toggleStarts
    /\ fail = "ctx" \/ nextCtx <= MaxContexts
    /\ LET r == InitRefs(fail, nextCtx)
           built == IF fail = "ctx" THEN graphs
                    ELSE [graphs EXCEPT ![nextCtx] = InitGraph(fail)]
           goesOn == initSucceeded(fail) /\ r.ctx # Null /\ r.masterGain # Null
           cc == ComputeConfig(GRAIN_CONFIGS, progressRef, mobileRef)
       IN  /\ refs' = r
           /\ nextCtx' = IF fail = "ctx" THEN nextCtx ELSE nextCtx + 1
           /\ IF goesOn
              THEN /\ isPlayingRef' = TRUE
                   /\ isPlaying' = TRUE
                   /\ graphs' = [built EXCEPT ![r.masterGain] =
                                     FadeIn(built[r.masterGain], built[r.ctx].age)]
                   /\ currentConfigRef' = cc.config
                   /\ GRAIN_CONFIGS' = cc.table
                   /\ scheduleNextGrain(TRUE, cc.config, r, grainTimers)
              ELSE /\ graphs' = built
                   /\ lastGrain' = NoGrain
                   /\ UNCHANGED <<isPlaying, isPlayingRef, currentConfigRef, GRAIN_CONFIGS,
                                  grainTimers, grainTimerRef>>
    /\ lastOp' = IF fail = "none" THEN "start" ELSE "startFailed"
    /\ UNCHANGED <<mounted, progress, progressRef, effectsPending, mobileRef, teardowns>>
    /\ UNCHANGED <<blendVars, pageVars>>

\* stop() and the cleanup without their clearTimeout
KeepGrainTimer == UNCHANGED <<grainTimers, grainTimerRef>>

\* the grain timer cleared by stop() and by the unmount cleanup
ClearGrainTimer ==
    IF grainTimerRef # Null
    THEN /\ grainTimers' = grainTimers \ {grainTimerRef}
         /\ grainTimerRef' = Null
    ELSE UNCHANGED <<grainTimers, grainTimerRef>>

\* stop(), reached from toggleAudio when isPlayingRef is true
stop ==
    /\ mounted
    /\ isPlayingRef
    /\ isPlayingRef' = FALSE
    /\ isPlaying' = FALSE
    /\ ClearGrainTimer
    /\ IF refs.ctx # Null /\ refs.masterGain # Null
       THEN /\ graphs' = [graphs EXCEPT ![refs.masterGain] =
                              FadeOut(graphs[refs.masterGain], graphs[refs.ctx].age)]
            /\ teardowns' = teardowns \cup {[ctx |-> refs.ctx, due |-> TeardownDelay]}
       ELSE UNCHANGED <<graphs, teardowns>>
    /\ lastOp' = "stop"
    /\ lastGrain' = NoGrain
    /\ UNCHANGED <<mounted, refs, currentConfigRef, progress, progressRef, effectsPending,
                   mobileRef, GRAIN_CONFIGS, nextCtx>>
    /\ UNCHANGED <<blendVars, pageVars>>

\* the timeout callback of stop(), lines 622-635, run when it is due
teardown(t) ==
    /\ t \in teardowns
    /\ t.due = 0
    /\ teardowns' = teardowns \ {t}
    /\ graphs' = CloseContext(graphs, t.ctx)
    /\ refs' = NullRefs
    /\ lastOp' = "teardown"
    /\ lastGrain' = NoGrain
    /\ UNCHANGED <<mounted, isPlaying, isPlayingRef, grainTimerRef, currentConfigRef,
                   progress, progressRef, effectsPending, mobileRef, GRAIN_CONFIGS,
                   nextCtx, grainTimers>>
    /\ UNCHANGED <<blendVars, pageVars>>

\* a pending grain timer fires: scheduleNextGrain()
grainTick(id) ==
    /\ id \in grainTimers
    /\ scheduleNextGrain(isPlayingRef, currentConfigRef, refs, grainTimers \ {id})
    /\ lastOp' = "tick"
    /\ UNCHANGED <<mounted, isPlaying, isPlayingRef, refs, currentConfigRef, progress,
                   progressRef, effectsPending, mobileRef, GRAIN_CONFIGS, graphs, nextCtx,
                   teardowns>>
    /\ UNCHANGED <<blendVars, pageVars>>

\* useScrollProgress publishes a new progress: the component re-renders and
\* its [progress] effects are queued
publish(p) ==
    /\ mounted
    /\ p # progress
    /\ progress' = p
    /\ effectsPending' = TRUE
    /\ lastOp' = "publish"
    /\ lastGrain' = NoGrain
    /\ UNCHANGED <<mounted, isPlaying, isPlayingRef, refs, grainTimerRef, currentConfigRef,
                   progressRef, mobileRef, GRAIN_CONFIGS, graphs, nextCtx, grainTimers,
                   teardowns>>
    /\ UNCHANGED <<blendVars, pageVars>>

\* the two [progress] effects, lines 399-435, run in order
progressEffects ==
    /\ mounted
    /\ effectsPending
    /\ effectsPending' = FALSE
    /\ progressRef' = progress
    /\ IF ~isPlayingRef
       THEN UNCHANGED <<currentConfigRef, GRAIN_CONFIGS>>
       ELSE LET cc == ComputeConfig(GRAIN_CONFIGS, progress, mobileRef)
            IN  /\ currentConfigRef' = cc.config
                /\ GRAIN_CONFIGS' = cc.table
    /\ lastOp' = "effects"
    /\ lastGrain' = NoGrain
    /\ UNCHANGED <<mounted, isPlaying, isPlayingRef, refs, grainTimerRef, progress,
                   mobileRef, graphs, nextCtx, grainTimers, teardowns>>
    /\ UNCHANGED <<blendVars, pageVars>>

\* the unmount cleanup, lines 649-667 (React runs pending effects before it)
unmount ==
    /\ mounted
    /\ ~effectsPending
    /\ mounted' = FALSE
    /\ isPlayingRef' = FALSE
    /\ ClearGrainTimer
    /\ graphs' = IF refs.ctx # Null THEN CloseContext(graphs, refs.ctx) ELSE graphs
    /\ lastOp' = "unmount"
    /\ lastGrain' = NoGrain
    /\ UNCHANGED <<isPlaying, refs, currentConfigRef, progress, progressRef, effectsPending,
                   mobileRef, GRAIN_CONFIGS, nextCtx, teardowns>>
    /\ UNCHANGED <<blendVars, pageVars>>

\* Time passes: every running context's clock and gain advance, every pending
\* teardown timer comes closer (a timer whose delay ends between two
\* observations runs at the later one: setTimeout runs no earlier than asked);
\* a due timer runs before more time passes
advanceTime ==
    /\ \A t \in teardowns : t.due > 0
    /\ \/ teardowns # {}
       \/ \E c \in Contexts : graphs[c].state = "running" /\ graphs[c].events # <<>>
    /\ graphs' = [c \in Contexts |-> AdvanceGraph(graphs[c])]
    /\ teardowns' = {[t EXCEPT !.due = Max(t.due - TimeStep, 0)] : t \in teardowns}
    /\ lastOp' = "time"
    /\ lastGrain' = NoGrain
    /\ UNCHANGED <<mounted, isPlaying, isPlayingRef, refs, grainTimerRef, currentConfigRef,
                   progress, progressRef, effectsPending, mobileRef, GRAIN_CONFIGS,
                   nextCtx, grainTimers>>
    /\ UNCHANGED <<blendVars, pageVars>>

-----------------------------------------------------------------------------
(* getSceneBlend evaluated along a sweep of progress                       *)

ProgressDomain == 0..Milli

evalBlend(q) ==
    /\ q \in ProgressDomain
    /\ q # bp
    /\ bprev' = [p |-> bp, r |-> bres]
    /\ bp' = q
    /\ bres' = getSceneBlend(q)
    /\ UNCHANGED <<engineVars, pageVars>>

-----------------------------------------------------------------------------
(* useScrollProgress                                                       *)

\* one unit of published progress is 1/Fine
Fine == 100 * Milli

Abs(x) == IF x < 0 THEN 0 - x ELSE x

\* the scroll range of the page, in px: a range in which every offset is an
\* exact multiple of 1/Fine of it
PageHeight == 20 * Milli

\* scrollHeight - innerHeight as updateProgress may find it
DocHeights == {0 - 1, 0, PageHeight}

\* scroll offsets around the top (rubber-banding gives negative ones), in the
\* Assembly window, and around the bottom (with overshoot)
ScrollPositions ==
    {0 - 3, 0, 1, 3, 7400, PageHeight - 1, PageHeight, PageHeight + 3}

\* handled scroll events counted between two updateProgress runs
MaxScrollEvents == 3

\* animation-frame callback ids the browser hands out
MaxRafIds == 2

\* the publication threshold 0.0001
Epsilon == 10

\* raw = docHeight > 0 ? scrollTop / docHeight : 0
rawRatio(scrollTop, height) ==
    IF height > 0 THEN (scrollTop * Fine) \div height ELSE 0

\* Math.min(raw, 1) alone
clampAbove(raw) == Min(raw, Fine)

\* Math.min(Math.max(raw, 0), 1)
clampRatio(raw) == Min(Max(raw, 0), Fine)

\* Math.abs(clamped - lastProgress.current) > 2 * 0.0001
exceedsTwice(clamped, last) == Abs(clamped - last) > 2 * Epsilon

\* Math.abs(clamped - lastProgress.current) > 0.0001
exceedsEpsilon(clamped, last) == Abs(clamped - last) > Epsilon

\* the result of one updateProgress run on the refs and the state
updateProgress(y, height, last, published) ==
    LET clamped == clampRatio(rawRatio(y, height))
    IN  IF exceedsEpsilon(clamped, last)
        THEN [lastProgress |-> clamped, progress |-> clamped,
              clamped |-> clamped, published |-> TRUE]
        ELSE [lastProgress |-> last, progress |-> published,
              clamped |-> clamped, published |-> FALSE]

NoSample == [clamped |-> 0, published |-> FALSE, events |-> 0]

\* the browser moves the scroll offset and queues a scroll event
scrollTo(y) ==
    /\ y # scrollY
    /\ scrollY' = y
    /\ scrollEventDue' = TRUE
    /\ scrollOp' = "scroll"
    /\ UNCHANGED <<docHeight, listening, rafId, rafQueue, lastProgress,
                   scrollProgress, eventsSinceRun, sample>>
    /\ UNCHANGED <<engineVars, blendVars, touchVars, overlayVars, sceneVars, cameraVars>>

\* the layout changes the scroll range; no scroll event comes with it
resize(h) ==
    /\ h # docHeight
    /\ docHeight' = h
    /\ scrollOp' = "resize"
    /\ UNCHANGED <<scrollY, scrollEventDue, listening, rafId, rafQueue, lastProgress,
                   scrollProgress, eventsSinceRun, sample>>
    /\ UNCHANGED <<engineVars, blendVars, touchVars, overlayVars, sceneVars, cameraVars>>

\* if (rafId.current === null), always true
rafAlways == TRUE

\* if (rafId.current === null)
rafIdle == rafId = Null

FreeRafIds == {i \in 1..MaxRafIds : i \notin rafQueue}

\* the scroll listener
handleScroll ==
    /\ listening
    /\ scrollEventDue
    /\ eventsSinceRun < MaxScrollEvents
    /\ FreeRafIds # {}
    /\ scrollEventDue' = FALSE
    /\ eventsSinceRun' = eventsSinceRun + 1
    /\ IF rafIdle
       THEN \E id \in FreeRafIds :
                /\ rafId' = id
                /\ rafQueue' = rafQueue \cup {id}
       ELSE UNCHANGED <<rafId, rafQueue>>
    /\ scrollOp' = "handleScroll"
    /\ UNCHANGED <<scrollY, docHeight, listening, lastProgress, scrollProgress, sample>>
    /\ UNCHANGED <<engineVars, blendVars, touchVars, overlayVars, sceneVars, cameraVars>>

\* the browser runs the animation-frame callback: updateProgress
frame(id) ==
    /\ id \in rafQueue
    /\ LET r == updateProgress(scrollY, docHeight, lastProgress, scrollProgress)
       IN  /\ lastProgress' = r.lastProgress
           /\ scrollProgress' = r.progress
           /\ sample' = [clamped |-> r.clamped, published |-> r.published,
                         events |-> eventsSinceRun]
    /\ rafId' = Null
    /\ rafQueue' = rafQueue \ {id}
    /\ eventsSinceRun' = 0
    /\ scrollOp' = "updateProgress"
    /\ UNCHANGED <<scrollY, docHeight, scrollEventDue, listening>>
    /\ UNCHANGED <<engineVars, blendVars, touchVars, overlayVars, sceneVars, cameraVars>>

\* the effect's cleanup
scrollCleanup ==
    /\ listening
    /\ listening' = FALSE
    /\ rafQueue' = IF rafId # Null THEN rafQueue \ {rafId} ELSE rafQueue
    /\ scrollOp' = "cleanup"
    /\ UNCHANGED <<scrollY, docHeight, scrollEventDue, rafId, lastProgress,
                   scrollProgress, eventsSinceRun, sample>>
    /\ UNCHANGED <<engineVars, blendVars, touchVars, overlayVars, sceneVars, cameraVars>>

\* Scene-local progress: clamp01((progress - start) / width), windows in
\* thousandths, progress and result in units of 1/Fine.
localProgress(prog, w) ==
    clampRatio(((prog - w.start * (Fine \div Milli)) * Milli) \div w.width)

SceneWindow(from, width) == [start |-> from, width |-> width]

\* the windows of p.draw
OverlayWindows ==
    {SceneWindow(30, 150), SceneWindow(190, 180), SceneWindow(370, 150),
     SceneWindow(540, 150), SceneWindow(710, 150)}

\* the windows of the 3D scenes' useFrame callbacks
SceneWindows ==
    {SceneWindow(30, 150), SceneWindow(200, 150), SceneWindow(370, 150),
     SceneWindow(540, 150), SceneWindow(710, 150)}

\* after the mount effect: the listener is registered and updateProgress has
\* run once, at the top of the page
InitScroll ==
    /\ scrollY = 0
    /\ docHeight = PageHeight
    /\ scrollEventDue = FALSE
    /\ listening = TRUE
    /\ rafId = Null
    /\ rafQueue = {}
    /\ lastProgress = 0
    /\ scrollProgress = 0
    /\ eventsSinceRun = 0
    /\ scrollOp = "mount"
    /\ sample = NoSample

-----------------------------------------------------------------------------
(* useMobileScroll                                                         *)

\* x * n / d, rounded towards zero
MulDiv(x, n, d) == IF x >= 0 THEN (x * n) \div d ELSE 0 - (((0 - x) * n) \div d)

\* velocities and scroll displacements are kept in tenths of a px
Deci == 2 * 5

\* the options Home passes: sensitivity in tenths, friction in hundredths,
\* momentumThreshold in tenths of a px per ms, maxVelocity in px per ms
MobileScrollConfig(s, f, m, v) ==
    [sensitivity |-> s, friction |-> f, momentumThreshold |-> m,
     maxVelocity |-> v * Deci]

\* a phone running iOS, and a touch device that is not detected as mobile
TouchConfigs ==
    {MobileScrollConfig(45, 92, 2, 10), MobileScrollConfig(25, 90, 2, 8)}

\* clientY of a touch, in px
TouchYs == {100, 108, 700}

\* performance.now() - touchLastTime.current at a touchmove, in ms
DeltaTimes == {0, 16}

\* touchmove events followed within one gesture
MaxMoves == 2

\* touchend is followed while |velocity| is at most this many px
MaxSpeed == 10

\* the weights of the velocity smoothing, in tenths
SmoothKeep == 7
SmoothNew == 3

\* frameVelocity = velocity.current * 16
FrameScale == 16

\* Math.abs(velocity.current) < 0.1, in tenths
RestSpeed == 1

\* velocity.current *= friction, with a friction of 1
frictionless(v, cfg) == v

\* velocity.current *= friction
applyFriction(v, cfg) == MulDiv(v, cfg.friction, 100)

\* Math.max(-maxVelocity, Math.min(maxVelocity, velocity.current))
clampVelocity(v, cfg) == Max(0 - cfg.maxVelocity, Min(cfg.maxVelocity, v))

\* the smoothed velocity after a move of deltaY px in deltaTime ms
smoothVelocity(v, deltaY, deltaTime, cfg) ==
    LET instantVelocity == MulDiv(deltaY * Deci, 1, deltaTime)
    IN  clampVelocity(MulDiv(v * SmoothKeep + instantVelocity * SmoothNew, 1, 10), cfg)

\* the id requestAnimationFrame returns: one the hook has not seen last
NewMomentumId(queue, ref) ==
    LET free == {i \in 1..MaxRafIds : i \notin queue /\ i # ref}
    IN  CHOOSE i \in free : \A j \in free : i <= j

\* cancelMomentum: the queue and the ref after it
cancelMomentum ==
    [queue |-> IF momentumRaf # Null THEN momentumQueue \ {momentumRaf} ELSE momentumQueue,
     raf |-> Null]

\* startMomentum: cancelMomentum, then requestAnimationFrame(animate)
startMomentum ==
    LET id == NewMomentumId(cancelMomentum.queue, momentumRaf)
    IN  /\ momentumRaf' = id
        /\ momentumQueue' = cancelMomentum.queue \cup {id}

\* touchstart with n fingers landing at once; y is e.touches[0].clientY
handleTouchStart(n, y) ==
    /\ touchListening
    /\ fingers + n <= 2
    /\ fingers' = fingers + n
    /\ IF fingers + n > 1
       THEN /\ isMultiTouch' = TRUE
            /\ touchLastYLive' = FALSE
            /\ UNCHANGED <<isTouching, momentumRaf, momentumQueue, touchLastY,
                           velocity, moves>>
       ELSE /\ isMultiTouch' = FALSE
            /\ isTouching' = TRUE
            /\ momentumRaf' = cancelMomentum.raf
            /\ momentumQueue' = cancelMomentum.queue
            /\ touchLastY' = y
            /\ touchLastYLive' = TRUE
            /\ velocity' = 0
            /\ moves' = 0
    /\ touchOp' = "touchstart"
    /\ UNCHANGED <<touchConfig, touchListening, scrolledBy>>
    /\ UNCHANGED <<engineVars, blendVars, scrollVars, overlayVars, sceneVars, cameraVars>>

\* touchmove; y is e.touches[0].clientY, deltaTime the time since touchLastTime
handleTouchMove(y, deltaTime) ==
    /\ touchListening
    /\ fingers >= 1
    /\ moves < MaxMoves
    /\ moves' = moves + 1
    /\ IF isMultiTouch \/ fingers > 1
       THEN /\ touchOp' = "touchmoveIgnored"
            /\ UNCHANGED <<velocity, scrolledBy, touchLastY, touchLastYLive>>
       ELSE LET deltaY == y - touchLastY
            IN  /\ velocity' = IF deltaTime > 0
                               THEN smoothVelocity(velocity, deltaY, deltaTime, touchConfig)
                               ELSE velocity
                /\ scrolledBy' = 0 - deltaY * touchConfig.sensitivity
                /\ touchLastY' = y
                /\ touchLastYLive' = TRUE
                /\ touchOp' = "touchmove"
    /\ UNCHANGED <<touchConfig, fingers, touchListening, momentumRaf, momentumQueue,
                   isTouching, isMultiTouch>>
    /\ UNCHANGED <<engineVars, blendVars, scrollVars, overlayVars, sceneVars, cameraVars>>

\* touchend: one finger is lifted
handleTouchEnd ==
    /\ touchListening
    /\ fingers >= 1
    /\ Abs(velocity) <= MaxSpeed * Deci
    /\ fingers' = fingers - 1
    /\ touchLastYLive' = FALSE
    /\ IF isMultiTouch
       THEN /\ isMultiTouch' = FALSE
            /\ touchOp' = "touchendMulti"
            /\ UNCHANGED <<isTouching, velocity, momentumRaf, momentumQueue>>
       ELSE /\ isTouching' = FALSE
            /\ UNCHANGED isMultiTouch
            /\ IF Abs(velocity) > touchConfig.momentumThreshold
               THEN /\ velocity' = velocity * FrameScale
                    /\ startMomentum
                    /\ touchOp' = "release"
               ELSE /\ touchOp' = "touchend"
                    /\ UNCHANGED <<velocity, momentumRaf, momentumQueue>>
    /\ UNCHANGED <<touchConfig, touchListening, touchLastY, moves, scrolledBy>>
    /\ UNCHANGED <<engineVars, blendVars, scrollVars, overlayVars, sceneVars, cameraVars>>

\* touchcancel: the browser takes all touches away
handleTouchCancel ==
    /\ touchListening
    /\ fingers >= 1
    /\ fingers' = 0
    /\ touchLastYLive' = FALSE
    /\ isTouching' = FALSE
    /\ isMultiTouch' = FALSE
    /\ momentumRaf' = cancelMomentum.raf
    /\ momentumQueue' = cancelMomentum.queue
    /\ touchOp' = "touchcancel"
    /\ UNCHANGED <<touchConfig, touchListening, touchLastY, velocity,
                   moves, scrolledBy>>
    /\ UNCHANGED <<engineVars, blendVars, scrollVars, overlayVars, sceneVars, cameraVars>>

\* the browser runs the animation-frame callback: animate
animate(id) ==
    /\ id \in momentumQueue
    /\ IF isTouching
       THEN /\ momentumQueue' = momentumQueue \ {id}
            /\ touchOp' = "animateTouching"
            /\ UNCHANGED <<velocity, scrolledBy, momentumRaf>>
       ELSE LET v == applyFriction(velocity, touchConfig)
            IN  IF Abs(v) < RestSpeed
                THEN /\ velocity' = 0
                     /\ momentumQueue' = momentumQueue \ {id}
                     /\ touchOp' = "animateRest"
                     /\ UNCHANGED <<scrolledBy, momentumRaf>>
                ELSE /\ velocity' = v
                     /\ scrolledBy' = 0 - v
                     /\ LET next == NewMomentumId(momentumQueue \ {id}, id)
                        IN  /\ momentumRaf' = next
                            /\ momentumQueue' = (momentumQueue \ {id}) \cup {next}
                     /\ touchOp' = "animateScroll"
    /\ UNCHANGED <<touchConfig, fingers, touchListening, touchLastY, touchLastYLive,
                   isTouching, isMultiTouch, moves>>
    /\ UNCHANGED <<engineVars, blendVars, scrollVars, overlayVars, sceneVars, cameraVars>>

\* the effect's cleanup
touchCleanup ==
    /\ touchListening
    /\ touchListening' = FALSE
    /\ momentumRaf' = cancelMomentum.raf
    /\ momentumQueue' = cancelMomentum.queue
    /\ touchOp' = "cleanup"
    /\ UNCHANGED <<touchConfig, fingers, touchLastY, touchLastYLive, velocity, isTouching,
                   isMultiTouch, moves, scrolledBy>>
    /\ UNCHANGED <<engineVars, blendVars, scrollVars, overlayVars, sceneVars, cameraVars>>

\* after the mount effect on a touch device, with the options of Home
InitTouch ==
    /\ touchConfig \in TouchConfigs
    /\ fingers = 0
    /\ touchListening = TRUE
    /\ touchLastY = 0
    /\ touchLastYLive = FALSE
    /\ velocity = 0
    /\ momentumRaf = Null
    /\ momentumQueue = {}
    /\ isTouching = FALSE
    /\ isMultiTouch = FALSE
    /\ moves = 0
    /\ scrolledBy = 0
    /\ touchOp = "mount"

-----------------------------------------------------------------------------
(* P5Overlay (desktop: Home renders it only when the device is not mobile)  *)

GridCols == 20
GridRows == 12

Cells == (0..(GridCols - 1)) \X (0..(GridRows - 1))

\* frames a flash entry of the inventory / verification grid is kept
InventoryFlashLife == 15
VerifyFlashLife == 12

\* frames drawn by one sketch
MaxFrames == 3

\* viewport sizes the window takes
CanvasSizes == {1, 2}

\* progress values the overlay is given: before the scenes, inside the
\* inventory window (local progress 0.47 and 1), the stream window, and inside
\* the verification window (local progress 0.4 and 1)
OverlayProgress == {0, 100, 180, 450, 600, 700}

NoGrid == [built |-> FALSE, cells |-> {}]
Grid(cells) == [built |-> TRUE, cells |-> cells]

\* clamp01((prog - start) / width), all in thousandths
sceneLocal(prog, from, width) == Clamp01(((prog - from) * Milli) \div width)

\* cellCenterX < scanX - scanBand.  With gap = cellSize / 4 and totalCell =
\* 5/4 cellSize the test is col + 0.4 < 22 * sceneP - 3 in units of totalCell,
\* whatever the canvas size.
behindScanner(col, sceneP) == (10 * col + 34) * Milli < 220 * sceneP

\* 4 * 1.2 * maxRadius / cellSize = 2.4 * sqrt(850), in thousandths
RippleReach == 69971

\* dist < rippleRadius - scanBand.  In units of cellSize / 4 the cell centre is
\* (5 col - 48, 5 row - 28) away from the grid centre and the scan band is 10;
\* the comparison is made in hundredths of that unit.
insideRipple(col, row, sceneP) ==
    LET d2 == (5 * col - 48) * (5 * col - 48) + (5 * row - 28) * (5 * row - 28)
        reach == (sceneP * RippleReach) \div (10 * Milli) - 10 * 100
    IN  reach > 0 /\ d2 * 100 * 100 < reach * reach

\* the revealed cells after a frame: the cells behind the frontier only
revealOnly(cells, behind) == behind

\* the revealed cells after a frame: flags are set, never cleared
revealInto(cells, behind) == cells \cup behind

\* the grid a resize leaves, if it kept it
retained(grid) == grid

\* verifiedCells = null; inventoryRevealed = null
invalidated(grid) == NoGrid

\* One frame of a reveal grid: (re)build when the grid is null, drop the old
\* flash entries, reveal the cells behind the frontier and flash the new ones,
\* count the flags for the counter text.
drawRevealGrid(grid, flash, behind, life, now) ==
    LET cells == IF grid.built THEN grid.cells ELSE {}
        queue == IF grid.built THEN flash ELSE {}
        kept == {f \in queue : now - f.frame < life}
        after == revealInto(cells, behind)
    IN  [grid |-> Grid(after),
         flash |-> kept \cup {[col |-> c[1], row |-> c[2], frame |-> now] :
                                 c \in behind \ cells},
         drawn |-> TRUE,
         fresh |-> ~grid.built,
         styled |-> Cardinality(behind),
         counter |-> Cardinality(after)]

drawInventoryGrid(grid, flash, sceneP, now) ==
    drawRevealGrid(grid, flash, {c \in Cells : behindScanner(c[1], sceneP)},
                   InventoryFlashLife, now)

drawVerificationGrid(grid, flash, sceneP, now) ==
    drawRevealGrid(grid, flash, {c \in Cells : insideRipple(c[1], c[2], sceneP)},
                   VerifyFlashLife, now)

\* a scene p.draw skips
notDrawn(grid, flash) ==
    [grid |-> grid, flash |-> flash, drawn |-> FALSE, fresh |-> FALSE,
     styled |-> 0, counter |-> 0]

\* initStreams: blocks at random heights within the canvas of that moment
initStreams(height) == [height |-> height]

\* the [progress] effect of the overlay
overlayEffect(p) ==
    /\ p # overlayProgress
    /\ overlayProgress' = p
    /\ overlayOp' = "effect"
    /\ UNCHANGED <<canvasHeight, frameCount, streams, inventoryRevealed, inventoryFlash,
                   verifiedCells, flashCells, lastDraw>>
    /\ UNCHANGED <<engineVars, blendVars, scrollVars, touchVars, sceneVars, cameraVars>>

\* p.draw, one frame
draw ==
    LET prog == overlayProgress
        now == frameCount + 1
        inv == IF prog >= 20 /\ prog <= 200
               THEN drawInventoryGrid(inventoryRevealed, inventoryFlash,
                                      sceneLocal(prog, 30, 150), now)
               ELSE notDrawn(inventoryRevealed, inventoryFlash)
        ver == IF prog >= 520 /\ prog <= 710
               THEN drawVerificationGrid(verifiedCells, flashCells,
                                         sceneLocal(prog, 540, 150), now)
               ELSE notDrawn(verifiedCells, flashCells)
        asm == prog >= 350 /\ prog <= 540
    IN  /\ frameCount < MaxFrames
        /\ frameCount' = now
        /\ inventoryRevealed' = inv.grid
        /\ inventoryFlash' = inv.flash
        /\ verifiedCells' = ver.grid
        /\ flashCells' = ver.flash
        /\ lastDraw' = [inventory |-> [drawn |-> inv.drawn, fresh |-> inv.fresh,
                                       styled |-> inv.styled, counter |-> inv.counter],
                        verification |-> [drawn |-> ver.drawn, fresh |-> ver.fresh,
                                          styled |-> ver.styled, counter |-> ver.counter],
                        streams |-> IF asm THEN streams.height ELSE 0]
        /\ overlayOp' = "draw"
        /\ UNCHANGED <<overlayProgress, canvasHeight, streams>>
        /\ UNCHANGED <<engineVars, blendVars, scrollVars, touchVars, sceneVars, cameraVars>>

\* p.windowResized
windowResized(h) ==
    /\ h # canvasHeight
    /\ canvasHeight' = h
    /\ streams' = initStreams(h)
    /\ verifiedCells' = invalidated(verifiedCells)
    /\ inventoryRevealed' = invalidated(inventoryRevealed)
    /\ overlayOp' = "resize"
    /\ UNCHANGED <<overlayProgress, frameCount, inventoryFlash, flashCells, lastDraw>>
    /\ UNCHANGED <<engineVars, blendVars, scrollVars, touchVars, sceneVars, cameraVars>>

NoDraw ==
    [inventory |-> [drawn |-> FALSE, fresh |-> FALSE, styled |-> 0, counter |-> 0],
     verification |-> [drawn |-> FALSE, fresh |-> FALSE, styled |-> 0, counter |-> 0],
     streams |-> 0]

\* the sketch effect's cleanup, then the effect again: a new closure and p.setup
overlayRemount ==
    /\ overlayOp # "remount"
    /\ frameCount' = 0
    /\ streams' = initStreams(canvasHeight)
    /\ verifiedCells' = NoGrid
    /\ inventoryRevealed' = NoGrid
    /\ flashCells' = {}
    /\ inventoryFlash' = {}
    /\ lastDraw' = NoDraw
    /\ overlayOp' = "remount"
    /\ UNCHANGED <<overlayProgress, canvasHeight>>
    /\ UNCHANGED <<engineVars, blendVars, scrollVars, touchVars, sceneVars, cameraVars>>

\* after the sketch effect and p.setup
InitOverlay ==
    /\ overlayProgress = 0
    /\ canvasHeight = 1
    /\ frameCount = 0
    /\ streams = initStreams(1)
    /\ inventoryRevealed = NoGrid
    /\ inventoryFlash = {}
    /\ verifiedCells = NoGrid
    /\ flashCells = {}
    /\ overlayOp = "setup"
    /\ lastDraw = NoDraw

-----------------------------------------------------------------------------
(* Particle systems: AccumulationStars and AssemblyStreams                 *)

\* t * t * (3 - 2 * t), in thousandths
smoothstep(t) == (t * t * (3 * Milli - 2 * t)) \div (Milli * Milli)

\* Math.max(0, Math.min(1, (progress - start) / 0.15))
sceneP(prog, from) == sceneLocal(prog, from, 150)

\* Math.sin(...) of the running time: any value of its range, in thousandths
SinValues == {0 - Milli, 0, Milli}

\* progress values around and inside the windows of the two systems
ParticleProgress == {370, 445, 520, 710, 785, 860, Milli}

\* STREAM_CONFIGS[i].speed, in thousandths
streamSpeed == <<1000, 1300, 800, 1100>>

\* scattered positions Math.random() may give one star
StarScattered == {<<0 - 8000, 5000, 0 - 3000>>, <<6000, 0 - 2000, 4000>>}

\* target positions around the cluster centres [0, 4, 0] and [3.8, 1.24, 0]
StarTargets == {<<300, 4200, 0 - 100>>, <<3800, 1240, 0>>}

\* origins around the stream origins [0, 6, 0] and [-6, 0, 0]
StreamOrigins == {<<500, 6000, 1200>>, <<0 - 6400, 0 - 300, 0 - 900>>}

\* the position AccumulationStars writes for one star
starPosition(scattered, target, converge, sin) ==
    LET twinkle == MulDiv(sin, 100, Milli)
    IN  <<scattered[1] + MulDiv(target[1] - scattered[1], converge, Milli) + twinkle,
          scattered[2] + MulDiv(target[2] - scattered[2], converge, Milli)
              + MulDiv(twinkle, 1, 2),
          scattered[3] + MulDiv(target[3] - scattered[3], converge, Milli)>>

\* the position AssemblyStreams writes for one particle
streamPosition(origin, converge, sin) ==
    <<MulDiv(origin[1], Milli - converge, Milli),
      MulDiv(origin[2], Milli - converge, Milli),
      MulDiv(origin[3], Milli - converge, Milli)
          + MulDiv(MulDiv(sin, 150, Milli), Milli - converge, Milli)>>

\* useFrame of AccumulationStars
starsFrame(p, sin) ==
    LET local == sceneP(p, 710)
        converge == smoothstep(local)
    IN  /\ star' = [star EXCEPT !.pos = starPosition(star.scattered, star.target,
                                                     converge, sin)]
        /\ particleFrame' = [system |-> "stars", progress |-> p, local |-> local,
                             converge |-> converge, sin |-> sin]
        /\ UNCHANGED <<stream, groupProgress, groups, groupsOp>>
        /\ UNCHANGED <<engineVars, blendVars, scrollVars, touchVars, overlayVars, cameraVars>>

\* useFrame of AssemblyStreams
streamsFrame(p, sin) ==
    LET local == sceneP(p, 370)
        converge == smoothstep(Min(Milli, MulDiv(local, streamSpeed[stream.idx + 1], Milli)))
    IN  /\ stream' = [stream EXCEPT !.pos = streamPosition(stream.origin, converge, sin)]
        /\ particleFrame' = [system |-> "streams", progress |-> p, local |-> local,
                             converge |-> converge, sin |-> sin]
        /\ UNCHANGED <<star, groupProgress, groups, groupsOp>>
        /\ UNCHANGED <<engineVars, blendVars, scrollVars, touchVars, overlayVars, cameraVars>>

\* after useMemo: the live positions start at the scattered set / the origins
InitParticlesAt(sc, t, o, i) ==
    /\ star = [scattered |-> sc, target |-> t, pos |-> sc]
    /\ stream = [origin |-> o, idx |-> i, pos |-> o]
    /\ particleFrame = [system |-> "none", progress |-> 0, local |-> 0,
                        converge |-> 0, sin |-> 0]

\* every placement, and one of them
InitParticles ==
    \E sc \in StarScattered, t \in StarTargets, o \in StreamOrigins, i \in 0..3 :
        InitParticlesAt(sc, t, o, i)

InitOneParticle ==
    InitParticlesAt(CHOOSE sc \in StarScattered : TRUE, CHOOSE t \in StarTargets : TRUE,
                    CHOOSE o \in StreamOrigins : TRUE, 0)

-----------------------------------------------------------------------------
(* The scene groups of Experience3D                                        *)

\* one unit of group progress and of a fade is 1/Myriad
Myriad == 10 * Milli

GroupProgress == 0..Myriad

\* the width 0.04 of every fade
FadeWidth == 400

\* ref.current.visible = fade > 0.01
FadeVisible == 100

\* progress < from ? 0 : Math.min(1, (progress - from) / 0.04)
fadeIn(p, from) ==
    IF p < from THEN 0 ELSE Min(Myriad, ((p - from) * Myriad) \div FadeWidth)

\* a fade-out that never starts
fadeStays(p, from) == Myriad

\* progress < from ? 1 : Math.max(0, 1 - (progress - from) / 0.04)
fadeOut(p, from) ==
    IF p < from THEN Myriad ELSE Max(0, Myriad - ((p - from) * Myriad) \div FadeWidth)

\* where each group starts to fade in and to fade out (the first group has no
\* fade-in and the last no fade-out)
GroupFadeIn == <<0, 1800, 3500, 5200, 6900>>
GroupFadeOut == <<2000, 3700, 5400, 7100, Myriad>>

NumGroups == Len(GroupFadeIn)

\* the fade the group's useFrame compares with 0.01
groupFade(g, p) ==
    IF g = 1 THEN fadeOut(p, GroupFadeOut[g])
    ELSE IF g = NumGroups THEN fadeIn(p, GroupFadeIn[g])
    ELSE Min(fadeIn(p, GroupFadeIn[g]), fadeOut(p, GroupFadeOut[g]))

\* one frame: the useFrame callbacks of the five groups
groupsFrame(p) ==
    /\ p \in GroupProgress
    /\ p # groupProgress
    /\ groupProgress' = p
    /\ groups' = [visible |-> [g \in 1..NumGroups |-> groupFade(g, p) > FadeVisible],
                  scale |-> 9500 + (groupFade(1, p) * 5) \div 100]
    /\ groupsOp' = "frame"
    /\ UNCHANGED <<star, stream, particleFrame>>
    /\ UNCHANGED <<engineVars, blendVars, scrollVars, touchVars, overlayVars, cameraVars>>

\* the groups as three.js creates them: visible, unscaled
InitGroups(p) ==
    /\ groupProgress = p
    /\ groups = [visible |-> [g \in 1..NumGroups |-> TRUE], scale |-> Myriad]
    /\ groupsOp = "mount"

-----------------------------------------------------------------------------
(* MorphCamera                                                             *)

\* one world unit of the camera's coordinates
Micro == Milli * Milli

\* the progress values the camera is held at: the title, the middle of the
\* entry of scene I, the start of the orbit of scene I, the middle of scene IV
\* and the end of the outro
CameraProgress == {0, 65, 100, 615, Milli}

\* const zPull = isMobile ? 5.0 : 0
zPull(mobile) == IF mobile THEN 5 * Micro ELSE 0

\* const xScale = isMobile ? 0.35 : 1, in thousandths
xScale(mobile) == IF mobile THEN 350 ELSE Milli

\* pos and lookAt of the frame's branch, at the progress values above:
\*   progress < 0.03:  (0, 0.5, 12 + zPull), looking at the origin
\*   0.065: t = 0.5, e = 0.5: (0, 0.5 + e * 4.5, 8 + (1 - e) * 4 + zPull),
\*          looking at (0, -e * 0.5, 0)
\*   0.10:  t = 0, angle = 0: (0, 5, 8 + zPull)
\*   0.615: t = 0.5: (-t * 2 * xScale, t, 5 + t * 2 + zPull)
\*   1:     t = 1: (sin(0.5) * xScale, 2 + 8, 8 + 4 + zPull), looking at (0, -1, 0)
cameraTarget(p, mobile) ==
    CASE p < 30 ->
           [pos |-> <<0, Micro \div 2, 12 * Micro + zPull(mobile)>>,
            lookAt |-> <<0, 0, 0>>]
      [] p = 65 ->
           [pos |-> <<0, 2750 * Milli, 10 * Micro + zPull(mobile)>>,
            lookAt |-> <<0, 0 - 250 * Milli, 0>>]
      [] p = 100 ->
           [pos |-> <<0, 5 * Micro, 8 * Micro + zPull(mobile)>>,
            lookAt |-> <<0, 0, 0>>]
      [] p = 615 ->
           [pos |-> <<0 - xScale(mobile) * Milli, Micro \div 2, 6 * Micro + zPull(mobile)>>,
            lookAt |-> <<0, 0, 0>>]
      [] OTHER ->
           [pos |-> <<(479426 * xScale(mobile)) \div Milli, 10 * Micro,
                      12 * Micro + zPull(mobile)>>,
            lookAt |-> <<0, 0 - Micro, 0>>]

\* const lerpSpeed = progress < 0.03 ? 0.015 : 0.035, in thousandths
lerpSpeed(p) == IF p < 30 THEN 15 ELSE 35

\* this.x -= (v.x - this.x) * alpha: a step away from the target
vectorLerpAway(current, target, alpha) ==
    [i \in 1..3 |-> current[i] - MulDiv(target[i] - current[i], alpha, Milli)]

\* THREE.Vector3.lerp: this.x += (v.x - this.x) * alpha, for each component
vectorLerp(current, target, alpha) ==
    [i \in 1..3 |-> current[i] + MulDiv(target[i] - current[i], alpha, Milli)]

\* useFrame of MorphCamera
cameraFrame ==
    LET target == cameraTarget(cameraProgress, cameraMobile)
        alpha == lerpSpeed(cameraProgress)
    IN  /\ currentPos' = vectorLerp(currentPos, target.pos, alpha)
        /\ currentLookAt' = vectorLerp(currentLookAt, target.lookAt, alpha)
        /\ cameraOp' = "frame"
        /\ UNCHANGED <<cameraProgress, cameraMobile>>
        /\ UNCHANGED <<engineVars, blendVars, scrollVars, touchVars, overlayVars, sceneVars>>

\* useRef(new THREE.Vector3(0, 0.5, 12)) and useRef(new THREE.Vector3(0, 0, 0))
InitialPose == [pos |-> <<0, Micro \div 2, 12 * Micro>>, lookAt |-> <<0, 0, 0>>]

\* the camera with the given props, where an earlier progress has left it
InitCameraAt(p, mobile, pose) ==
    /\ cameraProgress = p
    /\ cameraMobile = mobile
    /\ currentPos = pose.pos
    /\ currentLookAt = pose.lookAt
    /\ cameraOp = "mount"

\* after the mount, on a desktop at the top of the page
InitCamera == InitCameraAt(0, FALSE, InitialPose)

-----------------------------------------------------------------------------
(* Specifications                                                          *)

InitEngine ==
    /\ mounted = TRUE
    /\ isPlaying = FALSE
    /\ isPlayingRef = FALSE
    /\ refs = NullRefs
    /\ grainTimerRef = Null
    /\ currentConfigRef = ConfigAt(GrainConfigTable, 0)
    /\ progress = 0
    /\ progressRef = 0
    /\ effectsPending = FALSE
    /\ mobileRef \in BOOLEAN
    /\ GRAIN_CONFIGS = GrainConfigTable
    /\ graphs = [c \in Contexts |-> NoGraph]
    /\ nextCtx = 1
    /\ grainTimers = {}
    /\ teardowns = {}
    /\ lastOp = "init"
    /\ lastGrain = NoGrain

\* the hooks of Home outside the audio engine, at their first touch device
\* options
InitPage ==
    /\ InitScroll
    /\ InitTouch /\ touchConfig = MobileScrollConfig(45, 92, 2, 10)
    /\ InitOverlay
    /\ InitOneParticle
    /\ InitGroups(0)
    /\ InitCamera

InitBlend(p) ==
    /\ bp = p
    /\ bres = getSceneBlend(p)
    /\ bprev = [p |-> p, r |-> getSceneBlend(p)]

Init == InitEngine /\ InitBlend(0) /\ InitPage

Next ==
    \/ \E fail \in InitFailures : start(fail)
    \/ stop
    \/ \E t \in teardowns : teardown(t)
    \/ \E id \in grainTimers : grainTick(id)
    \/ \E p \in LifecycleProgress : publish(p)
    \/ progressEffects
    \/ unmount
    \/ advanceTime

\* The engine's lifecycle with its timers and clocks.
Spec == Init /\ [][Next]_vars

\* The grain scheduler against progress updates, between two observations of
\* the clocks: toggles, grain timers, published progress values and effects.
NextGrains ==
    \/ start("none")
    \/ stop
    \/ \E id \in grainTimers : grainTick(id)
    \/ \E p \in ProgressValues : publish(p)
    \/ progressEffects

SpecGrains == Init /\ [][NextGrains]_vars

\* getSceneBlend alone: every progress in [0,1] as a first argument, then a sweep
InitSweep == InitEngine /\ InitPage /\ \E p \in ProgressDomain : InitBlend(p)

NextSweep == \E d \in 1..MaxStep : evalBlend(bp + d) \/ evalBlend(bp - d)

SpecBlend == InitSweep /\ [][NextSweep]_vars

\* useScrollProgress against the browser: scrolling, layout changes, scroll
\* events, animation frames and the unmount
NextScroll ==
    \/ \E y \in ScrollPositions : scrollTo(y)
    \/ \E h \in DocHeights : resize(h)
    \/ handleScroll
    \/ \E id \in rafQueue : frame(id)
    \/ scrollCleanup

InitDesktop == Init /\ mobileRef = FALSE

\* the particle systems, frame by frame, for every random placement
NextParticles ==
    \/ \E p \in ParticleProgress, sin \in SinValues : starsFrame(p, sin)
    \/ \E p \in ParticleProgress, sin \in SinValues : streamsFrame(p, sin)

InitParticleSpec ==
    /\ InitEngine /\ mobileRef = FALSE
    /\ InitBlend(0)
    /\ InitScroll
    /\ InitTouch /\ touchConfig = MobileScrollConfig(45, 92, 2, 10)
    /\ InitOverlay
    /\ InitParticles
    /\ InitGroups(0)
    /\ InitCamera

SpecParticles == InitParticleSpec /\ [][NextParticles]_vars

\* the scene groups: a first frame at any progress, then a sweep
NextGroups ==
    \E d \in 1..MaxStep : groupsFrame(groupProgress + d) \/ groupsFrame(groupProgress - d)

InitGroupSpec ==
    /\ InitEngine /\ mobileRef = FALSE
    /\ InitBlend(0)
    /\ InitScroll
    /\ InitTouch /\ touchConfig = MobileScrollConfig(45, 92, 2, 10)
    /\ InitOverlay
    /\ InitOneParticle
    /\ \E p \in GroupProgress : InitGroups(p)
    /\ InitCamera

SpecGroups == InitGroupSpec /\ [][NextGroups]_vars

\* the overlay's sketch: progress changes, frames, resizes and remounts
NextOverlay ==
    \/ \E p \in OverlayProgress : overlayEffect(p)
    \/ draw
    \/ \E h \in CanvasSizes : windowResized(h)
    \/ overlayRemount

SpecOverlay == InitDesktop /\ [][NextOverlay]_vars

\* useMobileScroll against the touch screen and the browser's frames
NextTouch ==
    \/ \E n \in 1..2, y \in TouchYs : handleTouchStart(n, y)
    \/ \E y \in TouchYs, dt \in DeltaTimes : handleTouchMove(y, dt)
    \/ handleTouchEnd
    \/ handleTouchCancel
    \/ \E id \in momentumQueue : animate(id)
    \/ touchCleanup

InitTouchDevice ==
    /\ InitEngine /\ mobileRef = TRUE
    /\ InitBlend(0)
    /\ InitScroll
    /\ InitTouch
    /\ InitOverlay
    /\ InitOneParticle
    /\ InitGroups(0)
    /\ InitCamera

SpecTouch == InitTouchDevice /\ [][NextTouch]_vars

\* one gesture after another on a phone, the browser running every requested
\* animation frame
NextMomentum ==
    \/ handleTouchStart(1, 100)
    \/ \E y \in TouchYs : handleTouchMove(y, 16)
    \/ handleTouchEnd
    \/ \E id \in momentumQueue : animate(id)

InitPhone == InitTouchDevice /\ touchConfig = MobileScrollConfig(45, 92, 2, 10)

SpecMomentum ==
    InitPhone /\ [][NextMomentum]_vars /\ WF_vars(\E id \in momentumQueue : animate(id))

\* the camera held at one progress, frame after frame, from the pose the mount
\* or a stay at another progress has left it in
InitCameraSpec ==
    /\ InitEngine /\ mobileRef = FALSE
    /\ InitBlend(0)
    /\ InitScroll
    /\ InitTouch /\ touchConfig = MobileScrollConfig(45, 92, 2, 10)
    /\ InitOverlay
    /\ InitOneParticle
    /\ InitGroups(0)
    /\ \E p \in CameraProgress, mobile \in BOOLEAN :
           \E pose \in {InitialPose} \cup {cameraTarget(q, mobile) : q \in CameraProgress} :
               InitCameraAt(p, mobile, pose)

NextCamera == cameraFrame

SpecCamera == InitCameraSpec /\ [][NextCamera]_vars /\ WF_vars(cameraFrame)

SpecScroll == InitDesktop /\ [][NextScroll]_vars

\* the same, with the browser running every requested animation frame
SpecScrollFair == SpecScroll /\ WF_vars(\E id \in rafQueue : frame(id))

-----------------------------------------------------------------------------
(* Properties                                                              *)

\* the context of the session that is playing: the last one built
CurrentSession == nextCtx - 1

HasTeardown(c) == \E t \in teardowns : t.ctx = c

\* C1: once stop() has run, no grain timer is pending and no grain is
\* spawned while the engine is not playing: a step that spawns a grain ends
\* with the engine playing, and a stopped engine has no pending grain timer.
C1_StopEndsGrains ==
    /\ ~isPlayingRef => grainTimers = {}
    /\ lastGrain.spawned => isPlayingRef

\* a Stop taken at once after a Start, while the gain is still 0
C1_Witness ==
    /\ lastOp = "stop"
    /\ ~isPlayingRef
    /\ \E c \in Contexts : /\ graphs[c].state = "running"
                          /\ graphs[c].stopped
                          /\ graphs[c].gain = 0
                          /\ HasTeardown(c)

\* C2: a grain spawned by the grain timer while the engine plays uses the
\* config derived from the published progress (its scene's config, or the
\* blend with the next scene's, capped on a touch device).
C2_GrainUsesPublishedProgress ==
    (lastOp = "tick" /\ lastGrain.spawned) =>
        lastGrain.config = ComputeConfig(GrainConfigTable, progress, mobileRef).config

\* C3: a Start is taken only from Idle, never while the teardown of an
\* earlier Stop is still pending.
C3_StartOnlyFromIdle == lastOp = "start" => teardowns = {}

\* C4: when a teardown is due, the master gain of the context it closes and
\* of the graph whose references it clears is 0.
C4_TeardownAfterFade ==
    \A t \in teardowns :
        t.due = 0 =>
            /\ graphs[t.ctx].gain = 0
            /\ refs.masterGain # Null => graphs[refs.masterGain].gain = 0

\* C5: after unmount no grain timer is pending, no grain is spawned, and
\* every context a Start played on is closed, or is closed by a teardown
\* that is still pending.
C5_UnmountReleasesAll ==
    ~mounted =>
        /\ grainTimers = {}
        /\ ~lastGrain.spawned
        /\ \A c \in Contexts :
               (graphs[c].started /\ graphs[c].state = "running") => HasTeardown(c)

\* C6: a Start builds a new graph and points every ref at it, and the context
\* of every session that has ended is closed or has its teardown pending.
C6_SessionEndsInTeardown ==
    /\ lastOp = "start" =>
           /\ refs.ctx = CurrentSession
           /\ \A f \in DOMAIN refs : refs[f] = refs.ctx
    /\ mounted =>
           \A c \in Contexts :
               (/\ graphs[c].started
                /\ graphs[c].state = "running"
                /\ ~(isPlayingRef /\ c = CurrentSession)) => HasTeardown(c)

\* C7: a start() whose initAudio failed leaves the engine idle: not playing
\* (so the next toggle starts again), no grain timer, no grain.
C7_FailedStartStaysIdle ==
    lastOp = "startFailed" =>
        /\ ~isPlayingRef
        /\ ~isPlaying
        /\ grainTimers = {}
        /\ ~lastGrain.spawned

\* a failure after the context was created, while an earlier Stop is pending
C7_Witness ==
    /\ lastOp = "startFailed"
    /\ refs.ctx # Null
    /\ refs.filter # refs.ctx
    /\ teardowns # {}

\* C8: from a Stop on, the master gain of the stopped graph never increases.
C8_FadeOutNeverRises ==
    [][\A c \in Contexts :
          (graphs[c].stopped /\ graphs[c].state = "running" /\ graphs'[c].state = "running")
              => graphs'[c].gain <= graphs[c].gain]_vars

\* the transition band progress p lies in (the index of the scene it ends), or -1
BandOf(p) ==
    IF \E i \in 0..(NumScenes - 1) :
           boundaries[i + 2] - transitionWidth <= p /\ p < boundaries[i + 2]
    THEN CHOOSE i \in 0..(NumScenes - 1) :
           boundaries[i + 2] - transitionWidth <= p /\ p < boundaries[i + 2]
    ELSE -1

\* C9: getSceneBlend returns a scene in 0..4 and a blend in [0,1]; the blend
\* is 0 outside the transition bands and does not decrease as progress
\* increases within a band; with blend > 0 the config blended in is that of
\* scene + 1, which is a scene of the table.
C9_BlendWellFormed ==
    /\ bres.scene \in 0..(NumScenes - 1)
    /\ bres.blend \in 0..Milli
    /\ BandOf(bp) = -1 => bres.blend = 0
    /\ (bprev.p <= bp /\ BandOf(bp) # -1 /\ BandOf(bprev.p) = BandOf(bp))
           => bprev.r.blend <= bres.blend
    /\ bres.blend > 0 =>
           /\ bres.scene + 1 <= NumScenes - 1
           /\ nextSceneOf(bres.scene) = bres.scene + 1

\* the piecewise function the claim states
Piecewise(p) ==
    IF p < boundaries[1] THEN [scene |-> 0, blend |-> 0]
    ELSE IF p >= boundaries[Len(boundaries)] THEN [scene |-> NumScenes - 1, blend |-> 0]
    ELSE LET i == CHOOSE k \in 0..(NumScenes - 1) :
                      boundaries[k + 1] <= p /\ p < boundaries[k + 2]
             band == boundaries[i + 2] - transitionWidth
         IN  IF p < band THEN [scene |-> i, blend |-> 0]
             ELSE [scene |-> i, blend |-> ((p - band) * Milli) \div transitionWidth]

\* C10: getSceneBlend is the piecewise function of the boundaries with
\* transition width 0.02; 0.10 gives scene 0 (Inventory) with blend 0 and
\* 0.185 gives scene 0 with blend 0.25.
C10_BlendIsPiecewise ==
    /\ bres = Piecewise(bp)
    /\ bprev.r = Piecewise(bprev.p)
    /\ bp = 100 => bres = [scene |-> 0, blend |-> 0]
    /\ bp = 185 => bres = [scene |-> 0, blend |-> 250]

\* 0.185 reached from below, inside the first transition band
C10_Witness == bp = 185 /\ bres.blend = 250 /\ bprev.p < bp /\ bprev.r.blend > 0

\* C19: while the engine plays, its context, noise buffer, filter and master
\* gain refs are all set, and every grain-timer tick spawns a grain.
C19_PlayingHasGraph ==
    isPlayingRef =>
        /\ refs.ctx # Null
        /\ refs.noiseBuffer # Null
        /\ refs.filter # Null
        /\ refs.masterGain # Null
        /\ lastOp = "tick" => lastGrain.spawned

\* C20: the config table is never modified, and the active config of a
\* playing engine whose effects have run is the one derived from the latest
\* progress and the device flag with the table as loaded.
C20_TableNeverWritten ==
    /\ GRAIN_CONFIGS = GrainConfigTable
    /\ (isPlayingRef /\ ~effectsPending) =>
           currentConfigRef = ComputeConfig(GrainConfigTable, progress, mobileRef).config

\* C11: the published progress is within [0,1] for every scroll offset and
\* scroll range (0 for a range of zero or less), and so is every scene-local
\* progress the overlay and the 3D scenes compute from it.
C11_ProgressWithinUnit ==
    /\ scrollProgress \in 0..Fine
    /\ lastProgress \in 0..Fine
    /\ sample.clamped \in 0..Fine
    /\ \A w \in OverlayWindows \cup SceneWindows :
           localProgress(scrollProgress, w) \in 0..Fine
    /\ (scrollOp = "updateProgress" /\ docHeight <= 0) => sample.clamped = 0

\* an overshooting offset has been sampled and published as 1, which lies
\* beyond the first window and before none
C11_Witness ==
    /\ scrollOp = "updateProgress"
    /\ scrollY > docHeight
    /\ docHeight > 0
    /\ sample.published
    /\ scrollProgress = Fine
    /\ localProgress(scrollProgress, SceneWindow(30, 150)) = Fine

\* C12: at most one animation-frame callback is pending; the scroll events
\* between two frames cause exactly one updateProgress run; and every handled
\* scroll event is followed by a run, which reads the offset of that moment.
C12_OneFramePerBurst ==
    /\ [](Cardinality(rafQueue) <= 1)
    /\ [](listening => ((eventsSinceRun > 0) <=> (rafQueue # {})))
    /\ [](listening => ((rafId # Null) <=> (rafQueue # {})))
    /\ []((scrollOp = "updateProgress") =>
             /\ sample.events >= 1
             /\ rafQueue = {}
             /\ sample.clamped = clampRatio(rawRatio(scrollY, docHeight)))
    /\ ((listening /\ eventsSinceRun > 0) ~> (eventsSinceRun = 0 \/ ~listening))

\* a run that served a burst of several scroll events
C12_Witness ==
    /\ scrollOp = "updateProgress"
    /\ sample.events = MaxScrollEvents
    /\ rafQueue = {}

\* C13: a run publishes exactly when the clamped ratio differs from the last
\* published value by more than 0.0001; after a run the published progress is
\* within 0.0001 of the ratio just sampled.
C13_PublishBeyondEpsilon ==
    /\ []((scrollOp = "updateProgress") =>
             /\ Abs(scrollProgress - sample.clamped) <= Epsilon
             /\ lastProgress = scrollProgress
             /\ sample.published => scrollProgress = sample.clamped)
    /\ [][(scrollOp' = "updateProgress") =>
             LET clamped == clampRatio(rawRatio(scrollY, docHeight))
                 beyond == Abs(clamped - scrollProgress) > Epsilon
             IN  /\ sample'.published <=> beyond
                 /\ (scrollProgress' # scrollProgress) <=> beyond
                 /\ beyond => scrollProgress' = clamped]_vars

\* a run after several small scroll steps that left the published value
\* behind the sampled ratio
C13_Witness ==
    /\ scrollOp = "updateProgress"
    /\ sample.events >= 2
    /\ ~sample.published
    /\ sample.clamped # scrollProgress

\* C17: the tracked velocity, during touch moves and as the displacement of a
\* momentum frame, is within [-maxVelocity, +maxVelocity].
C17_VelocityClamped ==
    /\ Abs(velocity) <= touchConfig.maxVelocity
    /\ (touchOp = "animateScroll") => Abs(scrolledBy) <= touchConfig.maxVelocity

\* C14: in both reveal grids a flag that is set stays set through every step
\* that is neither a resize nor a remount.
C14_RevealedStaysRevealed ==
    [][(overlayOp' \notin {"resize", "remount"}) =>
          /\ inventoryRevealed.built =>
                 /\ inventoryRevealed'.built
                 /\ inventoryRevealed.cells \subseteq inventoryRevealed'.cells
          /\ verifiedCells.built =>
                 /\ verifiedCells'.built
                 /\ verifiedCells.cells \subseteq verifiedCells'.cells]_vars

\* a frame drawn after progress went backwards: fewer cells lie behind the
\* frontier than are flagged, in both grids
C14_Witness ==
    /\ overlayOp = "draw"
    /\ \/ /\ lastDraw.inventory.drawn
          /\ lastDraw.inventory.styled < Cardinality(inventoryRevealed.cells)
       \/ /\ lastDraw.verification.drawn
          /\ lastDraw.verification.styled < Cardinality(verifiedCells.cells)

\* C15: a resize leaves both grids unbuilt and the stream blocks re-created for
\* the new canvas; the first frame of a grid scene after it starts from an
\* empty grid and an empty flash queue, and every frame uses the blocks made
\* for the canvas of that moment.
C15_ResizeRebuilds ==
    /\ []((overlayOp = "resize") =>
             /\ ~inventoryRevealed.built
             /\ ~verifiedCells.built
             /\ streams = initStreams(canvasHeight))
    /\ [](streams.height = canvasHeight)
    /\ [][(overlayOp' = "draw") =>
             /\ (lastDraw'.inventory.drawn /\ ~inventoryRevealed.built) =>
                    /\ lastDraw'.inventory.fresh
                    /\ Cardinality(inventoryRevealed'.cells) = lastDraw'.inventory.styled
                    /\ \A f \in inventoryFlash' : f.frame = frameCount'
             /\ (lastDraw'.verification.drawn /\ ~verifiedCells.built) =>
                    /\ lastDraw'.verification.fresh
                    /\ Cardinality(verifiedCells'.cells) = lastDraw'.verification.styled
                    /\ \A f \in flashCells' : f.frame = frameCount'
             /\ lastDraw'.streams \in {0, canvasHeight}]_vars

\* the first inventory frame after a resize that followed a frame with
\* revealed cells and flash entries
C15_Witness ==
    /\ overlayOp = "draw"
    /\ canvasHeight # 1
    /\ frameCount >= 2
    /\ lastDraw.inventory.fresh
    /\ inventoryRevealed.cells # {}
    /\ lastDraw.inventory.counter = lastDraw.inventory.styled

\* C16: after a frame at scene-local progress 0 the particle is at its
\* scattered position / origin, after a frame at scene-local progress 1 at its
\* target (the centre, for a stream particle); the convergence factor is 0 and
\* 1 there.
C16_BoundariesExact ==
    /\ (particleFrame.system = "stars" /\ particleFrame.local = 0) =>
           /\ particleFrame.converge = 0
           /\ star.pos = star.scattered
    /\ (particleFrame.system = "stars" /\ particleFrame.local = Milli) =>
           /\ particleFrame.converge = Milli
           /\ star.pos = star.target
    /\ (particleFrame.system = "streams" /\ particleFrame.local = 0) =>
           /\ particleFrame.converge = 0
           /\ stream.pos = stream.origin
    /\ (particleFrame.system = "streams" /\ particleFrame.local = Milli) =>
           /\ particleFrame.converge = Milli
           /\ stream.pos = <<0, 0, 0>>

\* C18: after a frame at least one scene group is visible and at most two;
\* two are visible only if they are neighbours and the progress lies between
\* the start of the later one's fade-in and the end of the earlier one's
\* fade-out; at 0.185 the Inventory and the Decision group are both visible.
C18_GroupVisibility ==
    (groupsOp = "frame") =>
        LET shown == {g \in 1..NumGroups : groups.visible[g]}
        IN  /\ Cardinality(shown) \in {1, 2}
            /\ \A g, h \in shown :
                   g < h => /\ h = g + 1
                            /\ groupProgress > GroupFadeIn[h]
                            /\ groupProgress < GroupFadeOut[g] + FadeWidth
            /\ (groupProgress = 1850) => shown = {1, 2}

\* the frame at progress 0.185
C18_Witness ==
    /\ groupsOp = "frame"
    /\ groupProgress = 1850
    /\ groups.visible[1]
    /\ groups.visible[2]
    /\ ~groups.visible[3]

\* C21: a reveal grid starts again with every cell unrevealed when its scene
\* is re-entered: a frame that draws a grid scene which the frame before it did
\* not draw begins from an unbuilt grid, so it ends with exactly the cells
\* behind the frontier of that frame flagged.
C21_ReentryResets ==
    [][(overlayOp' = "draw") =>
          /\ (lastDraw'.inventory.drawn /\ ~lastDraw.inventory.drawn) =>
                 /\ lastDraw'.inventory.fresh
                 /\ lastDraw'.inventory.counter = lastDraw'.inventory.styled
          /\ (lastDraw'.verification.drawn /\ ~lastDraw.verification.drawn) =>
                 /\ lastDraw'.verification.fresh
                 /\ lastDraw'.verification.counter = lastDraw'.verification.styled]_vars

\* C29: an inventory frame at scene-local progress 1 leaves all 20 x 12 cells
\* revealed and its counter at 240; the first frame of a grid at a local
\* progress strictly between 0 and 1 counts fewer cells than the total.
C29_SweepCompletes ==
    (overlayOp = "draw" /\ lastDraw.inventory.drawn) =>
        LET local == sceneLocal(overlayProgress, 30, 150)
        IN  /\ (local = Milli) =>
                   /\ inventoryRevealed.cells = Cells
                   /\ lastDraw.inventory.counter = GridCols * GridRows
            /\ (local > 0 /\ local < Milli /\ lastDraw.inventory.fresh) =>
                   lastDraw.inventory.counter < GridCols * GridRows

\* C30: in every frame of a reveal-grid scene the counter equals the number of
\* cells drawn in the revealed style in that frame.
C30_CounterMatchesStyle ==
    (overlayOp = "draw") =>
        /\ lastDraw.inventory.drawn =>
               lastDraw.inventory.counter = lastDraw.inventory.styled
        /\ lastDraw.verification.drawn =>
               lastDraw.verification.counter = lastDraw.verification.styled

\* C28: after an updateProgress run with the page at the very top the
\* published progress is exactly 0, and with the page at the very bottom it is
\* exactly 1.
C28_ExactAtEnds ==
    (scrollOp = "updateProgress" /\ docHeight > 0) =>
        /\ (scrollY = 0) => scrollProgress = 0
        /\ (scrollY = docHeight) => scrollProgress = Fine

\* C26: after a touchstart no momentum frame scrolls the page until a touchend
\* starts momentum again: while a finger is on the screen no animate callback
\* calls window.scrollBy.
C26_TouchStopsMomentum ==
    (touchOp = "animateScroll") => fingers = 0

\* C27: every touchmove that scrolls measures its displacement against a
\* position recorded by the touchstart or the previous touchmove of the
\* single-finger gesture under way.
C27_MoveAgainstOwnReference ==
    [][(touchOp' = "touchmove") => touchLastYLive]_vars

\* C24: every momentum frame that scrolls has shrunk the velocity by the
\* friction factor; a frame that finds it below 0.1 sets it to 0 and requests
\* no further frame; and after a release that starts momentum the loop ends,
\* with the velocity at 0 and no callback pending, unless a finger touches
\* the screen again or the hook is unmounted.
C24_MomentumTerminates ==
    /\ [][(touchOp' = "animateScroll") =>
             /\ velocity' = applyFriction(velocity, touchConfig)
             /\ Abs(velocity') < Abs(velocity)
             /\ Abs(velocity') >= RestSpeed]_vars
    /\ []((touchOp = "animateRest") => (velocity = 0 /\ momentumQueue = {}))
    /\ ((touchOp = "release") ~>
            \/ velocity = 0 /\ momentumQueue = {}
            \/ fingers > 0
            \/ ~touchListening)

\* the loop has come to rest after a release and several scrolling frames
C24_Witness ==
    /\ touchOp = "animateRest"
    /\ fingers = 0
    /\ velocity = 0
    /\ momentumQueue = {}
    /\ Abs(scrolledBy) = RestSpeed

\* C22: a grain spawned while the published progress lies in the Decision
\* scene is panned by its pitch, to the left when the pitch is below the
\* midpoint of its config's pitch range and to the right otherwise; a grain
\* spawned in any other scene has a pan of magnitude at most its config's
\* panSpread.
C22_DecisionPanByPitch ==
    lastGrain.spawned =>
        LET config == lastGrain.config
            below == 2 * lastGrain.pitch < config.pitchLow + config.pitchHigh
        IN  IF getSceneBlend(progress).scene = 1
            THEN IF below THEN lastGrain.pan < 0 ELSE lastGrain.pan > 0
            ELSE Abs(lastGrain.pan) <= config.panSpread

\* C25: at most one grain timer is pending at any time, and it is the one
\* grainTimerRef holds, so the clearTimeout of stop() leaves none.
C25_OneGrainChain ==
    /\ Cardinality(grainTimers) <= 1
    /\ grainTimers \subseteq {grainTimerRef}
    /\ (lastOp = "stop") => grainTimers = {}

\* the grain chain of a second session, after a Stop and a new Start
C25_Witness ==
    /\ lastOp = "tick"
    /\ isPlayingRef
    /\ nextCtx >= 3
    /\ Cardinality(grainTimers) = 1
    /\ lastGrain.spawned

\* the camera target of the progress it is held at
CameraGoal == cameraTarget(cameraProgress, cameraMobile)

\* b lies between a and c
Between(a, b, c) == (a <= b /\ b <= c) \/ (c <= b /\ b <= a)

\* the step (target - current) * f is below the resolution of the
\* coordinates: a frame leaves the vector where it is
AtRest(current, target) ==
    vectorLerp(current, target, lerpSpeed(cameraProgress)) = current

\* C23: a frame moves position and look-at by (target - current) * f, with
\* f = 0.015 while progress < 0.03 and 0.035 otherwise; each component of the
\* new value lies between the old value and the target, no component's
\* distance to the target grows, and it shrinks as long as the step is above
\* the resolution of the coordinates; the camera comes to rest at the target.
C23_CameraSmoothing ==
    /\ [][(cameraOp' = "frame") =>
             LET f == IF cameraProgress < 30 THEN 15 ELSE 35
             IN  \A i \in 1..3 :
                   /\ currentPos'[i] = currentPos[i]
                          + MulDiv(CameraGoal.pos[i] - currentPos[i], f, Milli)
                   /\ currentLookAt'[i] = currentLookAt[i]
                          + MulDiv(CameraGoal.lookAt[i] - currentLookAt[i], f, Milli)
                   /\ Between(currentPos[i], currentPos'[i], CameraGoal.pos[i])
                   /\ Between(currentLookAt[i], currentLookAt'[i], CameraGoal.lookAt[i])
                   /\ Abs(CameraGoal.pos[i] - currentPos'[i])
                          <= Abs(CameraGoal.pos[i] - currentPos[i])
                   /\ (Abs(CameraGoal.pos[i] - currentPos[i]) * f >= Milli) =>
                          Abs(CameraGoal.pos[i] - currentPos'[i])
                              < Abs(CameraGoal.pos[i] - currentPos[i])]_vars
    /\ <>[](AtRest(currentPos, CameraGoal.pos) /\ AtRest(currentLookAt, CameraGoal.lookAt))

\* the camera has travelled from another pose to rest at the target of the
\* middle of scene IV, on a phone
C23_Witness ==
    /\ cameraOp = "frame"
    /\ cameraProgress = 615
    /\ cameraMobile
    /\ AtRest(currentPos, CameraGoal.pos)
    /\ AtRest(currentLookAt, CameraGoal.lookAt)
    /\ currentPos[1] # CameraGoal.pos[1]
    /\ currentPos[3] # CameraGoal.pos[3]

====
